---- MODULE Spec2Model ----
(***************************************************************************)
(* Model of the flow execution engine of stripe-onboarder                  *)
(* (src/src/onboard.ts): fillOutFlow, fillOutPages, fillOutSummaryPage and *)
(* the top-level failure handler, for one flow invocation.  Every awaited  *)
(* call is one step of the flow; the page (its location, its alerts, the   *)
(* errors its primitives raise) is the environment.                        *)
(***************************************************************************)
EXTENDS Naturals, Sequences, FiniteSets

(* Bounds of the model. *)
MaxFlowTasks == 1
MaxAlerts == 2
MaxTests == 4

(* The permits of accountCreateSemaphore (new Sema(3)). *)
SemaPermits == 3

(* The test cases of the harness. *)
Tests == 1..MaxTests

(* The fixed steps around the flow-specific ones (onboard.ts:175-179). *)
NumPrologueTasks == 3
NumEpilogueTasks == 1

(* Texts the page may show in role=alert elements. *)
AlertTexts == {"Phone number invalid", "Email invalid"}

(* Errors a page primitive, the browser or a step task may raise. *)
EnvErrors == {"TimeoutError", "ProtocolError"}

VARIABLES
    pc,               \* position of the flow in fillOutFlow / fillOutPages
    debug,            \* options.debug is truthy
    valuesSet,        \* options.values is set
    numFlowTasks,     \* length of the flow-specific pageTasks
    step,             \* position of the loop of fillOutPages (1-based)
    onSite,           \* the page is on the target site (environment)
    browser,          \* "none", "open" or "closed"
    closeCount,       \* number of invocations of browser.close
    validationErrors, \* texts of the last non-empty role=alert query
    e,                \* the error caught by the top-level handler
    errSrc,           \* the statement that raised e
    handlerOnSite,    \* result of the handler's site check: "none", "on", "off"
    injected,         \* diagnostics injected into the page
    submitClicks,     \* clicks of the final submission button
    confirmClicks,    \* clicks of the dialog's confirm button
    outcome,          \* "pending", "resolved" or "rejected"
    thrown,           \* the error onboard rejects with
    log,              \* history of the calls made, in order
    testPc,           \* test harness: position of each test case
    free,             \* test harness: free permits of accountCreateSemaphore
    waiting           \* test harness: the semaphore's queue of waiting acquirers

flowVars == <<pc, debug, valuesSet, numFlowTasks, step, onSite, browser, closeCount,
              validationErrors, e, errSrc, handlerOnSite, injected, submitClicks,
              confirmClicks, outcome, thrown, log>>

(* The state of the test harness (createAndOnboardAccount and its semaphore). *)
Harness == <<testPc, free, waiting>>

vars == <<flowVars, Harness>>

----------------------------------------------------------------------------
(* Pure helpers. *)

RECURSIVE SeqsUpTo(_, _)
SeqsUpTo(S, n) ==
    IF n = 0 THEN {<<>>}
    ELSE SeqsUpTo(S, n - 1) \cup
         {Append(s, x) : s \in {t \in SeqsUpTo(S, n - 1) : Len(t) = n - 1}, x \in S}

AlertLists == SeqsUpTo(AlertTexts, MaxAlerts)

(* Array.prototype.join *)
RECURSIVE Join(_, _)
Join(texts, sep) ==
    IF Len(texts) = 0 THEN ""
    ELSE IF Len(texts) = 1 THEN texts[1]
    ELSE texts[1] \o sep \o Join(Tail(texts), sep)

(* A variant that joins the texts with a comma. *)
ValidationMessageCommaJoined(errorMessages) ==
    "Validation errors found. " \o Join(errorMessages, ", ")

(* The message of the validation rejection (onboard.ts:250). *)
ValidationMessage(errorMessages) ==
    "Validation errors found. " \o Join(errorMessages, ". ")

(* The message of the epilogue's structural inconsistency (onboard.ts:205). *)
MissingFieldsMessage ==
    "Fields were missing in summary despite no errors during flow."

(* The message of the caller configuration error (onboard.ts:129). *)
ValuesMessage == "Values must be set."

(* Error.prototype.toString *)
ErrorToString(msg) == "Error: " \o msg

(* A call of an async function returns a promise; await unwraps it. *)
Promise(v) == [kind |-> "promise", value |-> v]
Await(p) == p.value
Bool(b) == [kind |-> "boolean", value |-> b]

(* JavaScript truthiness: an object (a promise) is truthy. *)
Truthy(v) == IF v.kind = "boolean" THEN v.value ELSE TRUE

(* isOnStripePage is async: it reads the page's location. *)
isOnStripePage(site) == Promise(Bool(site))

(* The combined sequence handed to fillOutPages (onboard.ts:174-180). *)
NumTasks == NumPrologueTasks + numFlowTasks + NumEpilogueTasks
IsSummaryStep(i) == i = NumTasks

Event(name, i) == [ev |-> name, step |-> i]

(* The pre-step check of fillOutPages (onboard.ts:231): the call is not    *)
(* awaited, so the condition negates the promise itself.                   *)
PreStepLeaves(site) == ~Truthy(isOnStripePage(site))

(* Variants of the handler's branching: without the debug branch, with the *)
(* debug test inverted, and with the debug test before the site check.     *)
HandlerDecisionCloseInDebug(stillOnSite, dbg) ==
    IF ~stillOnSite THEN "return" ELSE "closeAndThrow"

HandlerDecisionInverted(stillOnSite, dbg) ==
    IF ~stillOnSite THEN "return"
    ELSE IF ~dbg THEN "inject"
    ELSE "closeAndThrow"

HandlerDecisionDebugFirst(stillOnSite, dbg) ==
    IF dbg THEN "inject"
    ELSE IF ~stillOnSite THEN "return"
    ELSE "closeAndThrow"

(* A variant of the handler's branching without the site check. *)
HandlerDecisionNoSiteCheck(stillOnSite, dbg) ==
    IF dbg THEN "inject" ELSE "closeAndThrow"

(* The branch the top-level handler takes (onboard.ts:184-197). *)
HandlerDecision(stillOnSite, dbg) ==
    IF ~stillOnSite THEN "return"
    ELSE IF dbg THEN "inject"
    ELSE "closeAndThrow"

(* A variant that ignores the alerts found. *)
AlertsDecisionIgnored(found) == "continue"

(* The branch after the role=alert query (onboard.ts:244). *)
AlertsDecision(found) == IF Len(found) > 0 THEN "throw" ELSE "continue"

(* A variant that leaves the loop before the last task. *)
AfterStepSkipsLast(i) == IF i < NumTasks - 1 THEN "preWait" ELSE "close"

(* Where the loop goes after a step's post-step wait (onboard.ts:225,257). *)
AfterStep(i) == IF i < NumTasks THEN "preWait" ELSE "close"

----------------------------------------------------------------------------
Init ==
    /\ pc = "start"
    /\ debug \in BOOLEAN
    /\ valuesSet \in BOOLEAN
    /\ numFlowTasks \in 0..MaxFlowTasks
    /\ step = 0
    /\ onSite = TRUE
    /\ browser = "none"
    /\ closeCount = 0
    /\ validationErrors = <<>>
    /\ e = "none"
    /\ errSrc = "none"
    /\ handlerOnSite = "none"
    /\ injected = <<>>
    /\ submitClicks = 0
    /\ confirmClicks = 0
    /\ outcome = "pending"
    /\ thrown = "none"
    /\ log = <<>>
    /\ testPc = [t \in Tests |-> "idle"]
    /\ free = SemaPermits
    /\ waiting = <<>>

(* Frames. *)
Opts == <<debug, valuesSet, numFlowTasks>>
Clicks == <<submitClicks, confirmClicks>>
Settled == <<outcome, thrown>>
Caught == <<e, errSrc>>

(* An error raised inside the try block reaches the handler. *)
Raise(err, src) ==
    /\ e' = err
    /\ errSrc' = src
    /\ pc' = "catch"

(* fillOutFlow settles. *)
Resolve ==
    /\ outcome' = "resolved"
    /\ thrown' = "none"
    /\ pc' = "done"

Reject(err) ==
    /\ outcome' = "rejected"
    /\ thrown' = err
    /\ pc' = "done"

----------------------------------------------------------------------------
(* The environment: the page navigates to or away from the target site. *)
PageNavigates ==
    /\ browser = "open"
    /\ pc \notin {"start", "launch", "navigate", "done"}
    /\ onSite' = ~onSite
    /\ UNCHANGED <<Harness, pc, Opts, step, browser, closeCount, validationErrors, Caught,
                   handlerOnSite, injected, Clicks, Settled, log>>

(* A variant without the check of the values. *)
CheckValuesOmitted ==
    /\ pc = "start"
    /\ pc' = "launch"
    /\ UNCHANGED <<Harness, Opts, step, onSite, browser, closeCount, validationErrors,
                   Caught, handlerOnSite, injected, Clicks, Settled, log>>

(* onboard.ts:128-130 *)
CheckValues ==
    /\ pc = "start"
    /\ IF ~valuesSet
         THEN Reject(ValuesMessage)
         ELSE /\ pc' = "launch"
              /\ UNCHANGED Settled
    /\ UNCHANGED <<Harness, Opts, step, onSite, browser, closeCount, validationErrors,
                   Caught, handlerOnSite, injected, Clicks, log>>

(* onboard.ts:132-147 *)
Launch ==
    /\ pc = "launch"
    /\ \/ /\ browser' = "open"
          /\ pc' = "navigate"
          /\ log' = Append(log, Event("launch", 0))
          /\ UNCHANGED Settled
       \/ \E err \in EnvErrors :
            /\ Reject(err)
            /\ UNCHANGED <<browser, log>>
    /\ UNCHANGED <<Harness, Opts, step, onSite, closeCount, validationErrors, Caught,
                   handlerOnSite, injected, Clicks>>

(* onboard.ts:155-165: newPage, setExtraHTTPHeaders, goto; outside the try. *)
Navigate ==
    /\ pc = "navigate"
    /\ \/ /\ pc' = "preWait"
          /\ step' = 1
          /\ log' = Append(log, Event("goto", 0))
          /\ UNCHANGED Settled
       \/ \E err \in EnvErrors :
            /\ Reject(err)
            /\ UNCHANGED <<step, log>>
    /\ UNCHANGED <<Harness, Opts, onSite, browser, closeCount, validationErrors, Caught,
                   handlerOnSite, injected, Clicks>>

----------------------------------------------------------------------------
(* fillOutPages (onboard.ts:221-258), one action per awaited call. *)

(* onboard.ts:226-229: the pre-step quiescence wait. *)
PreWait ==
    /\ pc = "preWait"
    /\ \/ /\ pc' = "siteCheck"
          /\ log' = Append(log, Event("preWait", step))
          /\ UNCHANGED Caught
       \/ \E err \in EnvErrors :
            /\ Raise(err, "preWait")
            /\ UNCHANGED log
    /\ UNCHANGED <<Harness, Opts, step, onSite, browser, closeCount, validationErrors,
                   handlerOnSite, injected, Clicks, Settled>>

(* onboard.ts:231-234: the pre-step check; a return goes on to line 182. *)
SiteCheck ==
    /\ pc = "siteCheck"
    /\ log' = Append(log, Event(IF onSite THEN "preCheckOn" ELSE "preCheckOff", step))
    /\ pc' = IF PreStepLeaves(onSite) THEN "close" ELSE "heading"
    /\ UNCHANGED <<Harness, Opts, step, onSite, browser, closeCount, validationErrors,
                   Caught, handlerOnSite, injected, Clicks, Settled>>

(* onboard.ts:236-237: the heading capture. *)
Heading ==
    /\ pc = "heading"
    /\ \/ /\ pc' = "task"
          /\ log' = Append(log, Event("heading", step))
          /\ UNCHANGED Caught
       \/ \E err \in EnvErrors :
            /\ Raise(err, "heading")
            /\ UNCHANGED log
    /\ UNCHANGED <<Harness, Opts, step, onSite, browser, closeCount, validationErrors,
                   handlerOnSite, injected, Clicks, Settled>>

(* onboard.ts:239-241: the task of this position is invoked. *)
TaskStart ==
    /\ pc = "task"
    /\ pc' = IF IsSummaryStep(step) THEN "summaryStatus" ELSE "taskRun"
    /\ log' = Append(log, Event("taskStart", step))
    /\ UNCHANGED <<Harness, Opts, step, onSite, browser, closeCount, validationErrors,
                   Caught, handlerOnSite, injected, Clicks, Settled>>

(* A variant in which a task that raised is invoked again. *)
TaskRunRetries ==
    /\ pc = "taskRun"
    /\ \/ /\ pc' = "alertQuery"
          /\ log' = Append(log, Event("taskEnd", step))
          /\ UNCHANGED Caught
       \/ \E err \in EnvErrors :
            /\ e' = err
            /\ errSrc' = "task"
            /\ pc' = "task"
            /\ log' = Append(log, Event("taskFail", step))
    /\ UNCHANGED <<Harness, Opts, step, onSite, browser, closeCount, validationErrors,
                   handlerOnSite, injected, Clicks, Settled>>

(* A prologue or flow-specific task completes or raises (onboard.ts:240). *)
TaskRun ==
    /\ pc = "taskRun"
    /\ \/ /\ pc' = "alertQuery"
          /\ log' = Append(log, Event("taskEnd", step))
          /\ UNCHANGED Caught
       \/ \E err \in EnvErrors :
            /\ Raise(err, "task")
            /\ log' = Append(log, Event("taskFail", step))
    /\ UNCHANGED <<Harness, Opts, step, onSite, browser, closeCount, validationErrors,
                   handlerOnSite, injected, Clicks, Settled>>

(* A variant that goes on to the submission although status boxes show. *)
SummaryStatusIgnoresBoxes ==
    /\ pc = "summaryStatus"
    /\ \/ /\ pc' = "summarySubmit"
          /\ log' = Append(log, Event("statusNone", step))
          /\ UNCHANGED Caught
       \/ /\ pc' = "summarySubmit"
          /\ log' = Append(log, Event("statusFound", step))
          /\ UNCHANGED Caught
       \/ \E err \in EnvErrors :
            /\ Raise(err, "task")
            /\ log' = Append(log, Event("taskFail", step))
    /\ UNCHANGED <<Harness, Opts, step, onSite, browser, closeCount, validationErrors,
                   handlerOnSite, injected, Clicks, Settled>>

(* fillOutSummaryPage, onboard.ts:202-208: the role=status query. *)
SummaryStatus ==
    /\ pc = "summaryStatus"
    /\ \/ /\ pc' = "summarySubmit"
          /\ log' = Append(log, Event("statusNone", step))
          /\ UNCHANGED Caught
       \/ /\ Raise(MissingFieldsMessage, "task")
          /\ log' = Append(Append(log, Event("statusFound", step)), Event("taskFail", step))
       \/ \E err \in EnvErrors :
            /\ Raise(err, "task")
            /\ log' = Append(log, Event("taskFail", step))
    /\ UNCHANGED <<Harness, Opts, step, onSite, browser, closeCount, validationErrors,
                   handlerOnSite, injected, Clicks, Settled>>

(* fillOutSummaryPage, onboard.ts:210: the final submission. *)
SummarySubmit ==
    /\ pc = "summarySubmit"
    /\ \/ /\ pc' = "summaryDialog"
          /\ submitClicks' = submitClicks + 1
          /\ log' = Append(log, Event("submit", step))
          /\ UNCHANGED Caught
       \/ \E err \in EnvErrors :
            /\ Raise(err, "task")
            /\ log' = Append(log, Event("taskFail", step))
            /\ UNCHANGED submitClicks
    /\ UNCHANGED <<Harness, Opts, step, onSite, browser, closeCount, validationErrors,
                   handlerOnSite, injected, confirmClicks, Settled>>

(* A variant that finds the dialog and does not confirm it. *)
SummaryDialogNeverConfirms ==
    /\ pc = "summaryDialog"
    /\ \/ /\ pc' = "alertQuery"
          /\ log' = Append(Append(log, Event("dialogNone", step)), Event("taskEnd", step))
          /\ UNCHANGED Caught
       \/ /\ pc' = "alertQuery"
          /\ log' = Append(Append(log, Event("dialogFound", step)), Event("taskEnd", step))
          /\ UNCHANGED Caught
       \/ \E err \in EnvErrors :
            /\ Raise(err, "task")
            /\ log' = Append(log, Event("taskFail", step))
    /\ UNCHANGED <<Harness, Opts, step, onSite, browser, closeCount, validationErrors,
                   handlerOnSite, injected, Clicks, Settled>>

(* fillOutSummaryPage, onboard.ts:212-215: the query for the dialog's button. *)
SummaryDialog ==
    /\ pc = "summaryDialog"
    /\ \/ /\ pc' = "alertQuery"
          /\ log' = Append(Append(log, Event("dialogNone", step)), Event("taskEnd", step))
          /\ UNCHANGED Caught
       \/ /\ pc' = "summaryConfirm"
          /\ log' = Append(log, Event("dialogFound", step))
          /\ UNCHANGED Caught
       \/ \E err \in EnvErrors :
            /\ Raise(err, "task")
            /\ log' = Append(log, Event("taskFail", step))
    /\ UNCHANGED <<Harness, Opts, step, onSite, browser, closeCount, validationErrors,
                   handlerOnSite, injected, Clicks, Settled>>

(* fillOutSummaryPage, onboard.ts:215-218: the dialog is confirmed. *)
SummaryConfirm ==
    /\ pc = "summaryConfirm"
    /\ \/ /\ pc' = "alertQuery"
          /\ confirmClicks' = confirmClicks + 1
          /\ log' = Append(Append(log, Event("confirm", step)), Event("taskEnd", step))
          /\ UNCHANGED Caught
       \/ \E err \in EnvErrors :
            /\ Raise(err, "task")
            /\ log' = Append(Append(log, Event("confirmFail", step)), Event("taskFail", step))
            /\ UNCHANGED confirmClicks
    /\ UNCHANGED <<Harness, Opts, step, onSite, browser, closeCount, validationErrors,
                   handlerOnSite, injected, submitClicks, Settled>>

(* onboard.ts:243-251: the role=alert query and the validation rejection. *)
AlertQuery ==
    /\ pc = "alertQuery"
    /\ \/ \E found \in AlertLists :
            IF AlertsDecision(found) = "throw"
              THEN /\ validationErrors' = found
                   /\ Raise(ValidationMessage(found), "validation")
                   /\ log' = Append(log, Event("alertsFound", step))
              ELSE /\ pc' = "postWait"
                   /\ log' = Append(log, Event(IF Len(found) = 0 THEN "alertsNone"
                                                ELSE "alertsFound", step))
                   /\ UNCHANGED <<validationErrors, Caught>>
       \/ \E err \in EnvErrors :
            /\ Raise(err, "alertQuery")
            /\ UNCHANGED <<validationErrors, log>>
    /\ UNCHANGED <<Harness, Opts, step, onSite, browser, closeCount, handlerOnSite,
                   injected, Clicks, Settled>>

(* A variant whose loop goes back to the previous position. *)
PostWaitGoesBack ==
    /\ pc = "postWait"
    /\ \/ /\ pc' = "preWait"
          /\ step' = IF step > 1 THEN step - 1 ELSE step + 1
          /\ log' = Append(log, Event("postWait", step))
          /\ UNCHANGED Caught
       \/ \E err \in EnvErrors :
            /\ Raise(err, "postWait")
            /\ UNCHANGED <<step, log>>
    /\ UNCHANGED <<Harness, Opts, onSite, browser, closeCount, validationErrors,
                   handlerOnSite, injected, Clicks, Settled>>

(* onboard.ts:253-257: the post-step quiescence wait, then the next position. *)
PostWait ==
    /\ pc = "postWait"
    /\ \/ /\ pc' = AfterStep(step)
          /\ step' = IF AfterStep(step) = "preWait" THEN step + 1 ELSE step
          /\ log' = Append(log, Event("postWait", step))
          /\ UNCHANGED Caught
       \/ \E err \in EnvErrors :
            /\ Raise(err, "postWait")
            /\ UNCHANGED <<step, log>>
    /\ UNCHANGED <<Harness, Opts, onSite, browser, closeCount, validationErrors,
                   handlerOnSite, injected, Clicks, Settled>>

----------------------------------------------------------------------------
(* fillOutFlow's try block after the step sequence, and its handler. *)

(* onboard.ts:182 (closeBrowser, 149-153) on the success path. *)
Close ==
    /\ pc = "close"
    /\ closeCount' = closeCount + 1
    /\ \/ /\ browser' = "closed"
          /\ log' = Append(log, Event("close", step))
          /\ Resolve
          /\ UNCHANGED Caught
       \/ \E err \in EnvErrors, b \in {"open", "closed"} :
            /\ browser' = b
            /\ log' = Append(log, Event("closeFail", step))
            /\ Raise(err, "close")
            /\ UNCHANGED Settled
    /\ UNCHANGED <<Harness, Opts, step, onSite, validationErrors, handlerOnSite, injected,
                   Clicks>>

(* onboard.ts:184-197: the handler awaits the site check and branches. *)
Catch ==
    /\ pc = "catch"
    /\ \/ /\ browser = "open"
          /\ handlerOnSite' = IF Truthy(Await(isOnStripePage(onSite))) THEN "on" ELSE "off"
          /\ log' = Append(log, Event("handlerCheck", step))
          /\ LET branch == HandlerDecision(Truthy(Await(isOnStripePage(onSite))), debug)
             IN  IF branch = "return"
                   THEN Resolve
                   ELSE /\ pc' = IF branch = "inject" THEN "inject" ELSE "handlerClose"
                        /\ UNCHANGED Settled
       \/ \E err \in EnvErrors :
            /\ Reject(err)
            /\ log' = Append(log, Event("handlerCheckFail", step))
            /\ UNCHANGED handlerOnSite
    /\ UNCHANGED <<Harness, Opts, step, onSite, browser, closeCount, validationErrors,
                   Caught, injected, Clicks>>

(* onboard.ts:190-193: the diagnostic is injected; the session stays open. *)
Inject ==
    /\ pc = "inject"
    /\ \/ /\ browser = "open"
          /\ injected' = Append(injected, ErrorToString(e))
          /\ log' = Append(log, Event("inject", step))
          /\ Resolve
       \/ \E err \in EnvErrors :
            /\ Reject(err)
            /\ log' = Append(log, Event("injectFail", step))
            /\ UNCHANGED injected
    /\ UNCHANGED <<Harness, Opts, step, onSite, browser, closeCount, validationErrors,
                   Caught, handlerOnSite, Clicks>>

(* onboard.ts:195-196: closeBrowser, then the caught error is re-raised. *)
HandlerClose ==
    /\ pc = "handlerClose"
    /\ closeCount' = closeCount + 1
    /\ \/ /\ browser' = "closed"
          /\ log' = Append(log, Event("close", step))
          /\ Reject(e)
       \/ \E err \in EnvErrors, b \in {"open", "closed"} :
            /\ browser' = b
            /\ log' = Append(log, Event("closeFail", step))
            /\ Reject(err)
    /\ UNCHANGED <<Harness, Opts, step, onSite, validationErrors, Caught, handlerOnSite,
                   injected, Clicks>>

----------------------------------------------------------------------------
Next ==
    \/ PageNavigates
    \/ CheckValues
    \/ Launch
    \/ Navigate
    \/ PreWait
    \/ SiteCheck
    \/ Heading
    \/ TaskStart
    \/ TaskRun
    \/ SummaryStatus
    \/ SummarySubmit
    \/ SummaryDialog
    \/ SummaryConfirm
    \/ AlertQuery
    \/ PostWait
    \/ Close
    \/ Catch
    \/ Inject
    \/ HandlerClose

Spec == Init /\ [][Next]_vars

(* The steps of the flow itself: every awaited call that settles. *)
FlowStep ==
    \/ CheckValues \/ Launch \/ Navigate \/ PreWait \/ SiteCheck \/ Heading
    \/ TaskStart \/ TaskRun \/ SummaryStatus \/ SummarySubmit \/ SummaryDialog
    \/ SummaryConfirm \/ AlertQuery \/ PostWait \/ Close \/ Catch \/ Inject
    \/ HandlerClose

(* The flow under the assumption that every primitive and task settles. *)
FairSpec == Spec /\ WF_vars(FlowStep)

----------------------------------------------------------------------------
(* The test harness (src/unnamed/part_000:45-78): the test cases run       *)
(* concurrently and create their accounts under accountCreateSemaphore.    *)

(* part_000:51: acquire takes a free permit or queues the caller. *)
Acquire(t) ==
    /\ testPc[t] = "idle"
    /\ IF free > 0
         THEN /\ free' = free - 1
              /\ testPc' = [testPc EXCEPT ![t] = "holding"]
              /\ UNCHANGED waiting
         ELSE /\ waiting' = Append(waiting, t)
              /\ testPc' = [testPc EXCEPT ![t] = "waiting"]
              /\ UNCHANGED free
    /\ UNCHANGED flowVars

(* part_000:60: release hands the permit to the first waiter, if any. *)
Release(t, next) ==
    IF Len(waiting) > 0
      THEN /\ testPc' = [testPc EXCEPT ![t] = next, ![Head(waiting)] = "holding"]
           /\ waiting' = Tail(waiting)
           /\ UNCHANGED free
      ELSE /\ testPc' = [testPc EXCEPT ![t] = next]
           /\ free' = free + 1
           /\ UNCHANGED waiting

(* part_000:52-61: the delay and stripe.accounts.create resolve; finally. *)
CreateSucceeds(t) ==
    /\ testPc[t] = "holding"
    /\ Release(t, "onboarding")
    /\ UNCHANGED flowVars

(* A variant without the finally: an error keeps the permit. *)
CreateFailsKeepsPermit(t) ==
    /\ testPc[t] = "holding"
    /\ testPc' = [testPc EXCEPT ![t] = "createFailed"]
    /\ UNCHANGED <<flowVars, free, waiting>>

(* part_000:52-61: stripe.accounts.create raises; finally. *)
CreateFails(t) ==
    /\ testPc[t] = "holding"
    /\ Release(t, "createFailed")
    /\ UNCHANGED flowVars

(* part_000:63-77: the account link and onboard settle. *)
OnboardSettles(t) ==
    /\ testPc[t] = "onboarding"
    /\ \E r \in {"passed", "failed"} : testPc' = [testPc EXCEPT ![t] = r]
    /\ UNCHANGED <<flowVars, free, waiting>>

HarnessNext ==
    \E t \in Tests :
        \/ Acquire(t)
        \/ CreateSucceeds(t)
        \/ CreateFails(t)
        \/ OnboardSettles(t)

(* Timers and remote calls settle, so every enabled step is taken. *)
HarnessSpec == Init /\ [][HarnessNext]_vars /\ WF_vars(HarnessNext)

----------------------------------------------------------------------------
(* Properties. *)

(* The statements of the step sequence that can raise into the handler. *)
SequenceSources == {"preWait", "heading", "task", "alertQuery", "validation", "postWait"}

Last(sq) == sq[Len(sq)]

(* t occurs in s at offset i (1-based). *)
OccursAt(s, t, i) == i + Len(t) - 1 <= Len(s) /\ SubSeq(s, i, i + Len(t) - 1) = t
Contains(s, t) == \E i \in 1..(Len(s) + 1) : OccursAt(s, t, i)

Bootstrapped == step >= 1

(* C1: once a pre-step check has seen the session off the target site, no  *)
(* task of that or a later position is invoked, no validation rejection is *)
(* raised, and the flow settles with success.                              *)
C1_ProactiveEarlyTermination ==
    \A j \in 1..Len(log) :
        log[j].ev = "preCheckOff" =>
            /\ \A k \in (j + 1)..Len(log) : log[k].ev \notin {"taskStart", "alertsFound"}
            /\ pc = "done" => outcome = "resolved"

(* C2: a bootstrapped flow without debug payload has invoked browser.close *)
(* by the time onboard settles.                                            *)
C2_NoDanglingSession ==
    (pc = "done" /\ Bootstrapped /\ ~debug) => closeCount >= 1

(* C3: browser.close is invoked at most once in a flow. *)
C3_NoDoubleRelease == closeCount <= 1

(* C4: when the browser was launched and the bootstrap then fails, the     *)
(* session is released before fillOutFlow exits.                           *)
C4_ReleaseOnBootstrapFailure ==
    (pc = "done" /\ browser # "none" /\ ~Bootstrapped) => closeCount >= 1

(* C5: after a validation rejection the error carries the text of every    *)
(* alert and, once the flow has settled, the session has been released     *)
(* unless the debug payload is truthy.                                     *)
C5_ValidationRejection ==
    errSrc = "validation" =>
        /\ \A i \in 1..Len(validationErrors) : Contains(e, validationErrors[i])
        /\ pc = "done" => (debug \/ closeCount >= 1)

(* The offset of the i-th alert text in the validation message. *)
RECURSIVE C6_Offset(_, _)
C6_Offset(texts, i) ==
    IF i = 1 THEN Len("Validation errors found. ") + 1
    ELSE C6_Offset(texts, i - 1) + Len(texts[i - 1]) + Len(". ")

(* C6 as stated: one alert 'Phone number invalid' yields the message with  *)
(* a trailing full stop.                                                   *)
C6_TrailingFullStop ==
    (errSrc = "validation" /\ validationErrors = <<"Phone number invalid">>) =>
        e = "Validation errors found. Phone number invalid."

(* C6 (amended): the validation message is the prefix 'Validation errors   *)
(* found. ' followed by the alert texts in document order, separated by    *)
(* '. ', with nothing after the last text.                                 *)
C6_ValidationMessageFormat ==
    errSrc = "validation" =>
        LET n == Len(validationErrors) IN
        /\ n >= 1
        /\ OccursAt(e, "Validation errors found. ", 1)
        /\ \A i \in 1..n : OccursAt(e, validationErrors[i], C6_Offset(validationErrors, i))
        /\ \A i \in 1..(n - 1) :
             OccursAt(e, ". ", C6_Offset(validationErrors, i) + Len(validationErrors[i]))
        /\ Len(e) = C6_Offset(validationErrors, n) + Len(validationErrors[n]) - 1
        /\ (validationErrors = <<"Phone number invalid">>
              => e = "Validation errors found. Phone number invalid")

C6_Witness ==
    /\ errSrc = "validation"
    /\ validationErrors = <<"Phone number invalid">>
    /\ e = "Validation errors found. Phone number invalid"

(* The handler ran for an error of the step sequence, found the session on *)
(* the target site, and the flow has settled.                              *)
FailedOnSite ==
    /\ pc = "done"
    /\ errSrc \in SequenceSources
    /\ handlerOnSite = "on"

(* C7 as stated: in debug mode such a flow has injected the diagnostic,    *)
(* never closed the browser, and onboard resolves.                         *)
C7_DebugNeverThrows ==
    (FailedOnSite /\ debug) =>
        /\ Len(injected) = 1
        /\ closeCount = 0
        /\ outcome = "resolved"

(* C7 (amended): in debug mode such a flow has attempted the injection and *)
(* never invoked browser.close; onboard resolves with the diagnostic of    *)
(* the caught error injected, and rejects, with the injection's own error, *)
(* only when the injection call itself raised.                             *)
C7_DebugInspection ==
    (FailedOnSite /\ debug) =>
        /\ closeCount = 0
        /\ browser = "open"
        /\ Last(log).ev \in {"inject", "injectFail"}
        /\ Last(log).ev = "inject" =>
             (outcome = "resolved" /\ injected = <<ErrorToString(e)>>)
        /\ Last(log).ev = "injectFail" =>
             (outcome = "rejected" /\ thrown \in EnvErrors /\ injected = <<>>)

C7_Witness ==
    /\ FailedOnSite
    /\ debug
    /\ errSrc = "task"
    /\ outcome = "resolved"
    /\ Len(injected) = 1
    /\ closeCount = 0

(* C8 as stated: without debug payload such a flow has released the        *)
(* session and onboard rejects with the very error that was caught.        *)
C8_RethrowsSameError ==
    (FailedOnSite /\ ~debug) =>
        /\ closeCount >= 1
        /\ outcome = "rejected"
        /\ thrown = e

(* C8 (amended): without debug payload such a flow has invoked             *)
(* browser.close exactly once, as its last call, and onboard rejects: with *)
(* the caught error when the close resolved, with the close's own error    *)
(* when the close raised.                                                  *)
C8_NonDebugFailure ==
    (FailedOnSite /\ ~debug) =>
        /\ closeCount = 1
        /\ injected = <<>>
        /\ outcome = "rejected"
        /\ Last(log).ev \in {"close", "closeFail"}
        /\ Last(log).ev = "close" => (thrown = e /\ browser = "closed")
        /\ Last(log).ev = "closeFail" => thrown \in EnvErrors

C8_Witness ==
    /\ FailedOnSite
    /\ ~debug
    /\ errSrc = "validation"
    /\ Last(log).ev = "close"
    /\ outcome = "rejected"
    /\ thrown = e
    /\ browser = "closed"

(* C9: when the handler finds the session off the target site, the error   *)
(* is suppressed: no diagnostic is injected, also with a debug payload,    *)
(* the handler makes no further call, and onboard resolves.                *)
C9_ReactiveEarlyTermination ==
    handlerOnSite = "off" =>
        /\ pc = "done"
        /\ outcome = "resolved"
        /\ thrown = "none"
        /\ injected = <<>>
        /\ Last(log).ev = "handlerCheck"

C9_Witness ==
    /\ handlerOnSite = "off"
    /\ debug
    /\ errSrc = "validation"
    /\ outcome = "resolved"

(* The greatest index below j at which the log holds evt, or 0. *)
PosBefore(evt, j) ==
    LET hits == {i \in 1..(j - 1) : log[i] = evt}
    IN  IF hits = {} THEN 0 ELSE CHOOSE i \in hits : \A k \in hits : k <= i

(* C10: when a task at position N+1 is invoked, then before it, in this    *)
(* order, the task at N was invoked and completed, the alert query of N    *)
(* found no alert, the post-step wait of N resolved and the pre-step wait  *)
(* of N+1 resolved; no task has failed and no alert was found before it,   *)
(* so that no other task is in progress.  (The log only grows, so every    *)
(* invocation is the last event of some state.)                            *)
C10_Sequencing ==
    (Len(log) > 0 /\ Last(log).ev = "taskStart") =>
        LET n == Len(log)
            s == Last(log).step
        IN  /\ s = step
            /\ \A i \in 1..(n - 1) : log[i].ev \notin {"taskFail", "alertsFound"}
            /\ PosBefore(Event("taskStart", s), n) = 0
            /\ PosBefore(Event("preWait", s), n) > 0
            /\ s > 1 =>
                 /\ 0 < PosBefore(Event("taskStart", s - 1), n)
                 /\ PosBefore(Event("taskStart", s - 1), n)
                      < PosBefore(Event("taskEnd", s - 1), n)
                 /\ PosBefore(Event("taskEnd", s - 1), n)
                      < PosBefore(Event("alertsNone", s - 1), n)
                 /\ PosBefore(Event("alertsNone", s - 1), n)
                      < PosBefore(Event("postWait", s - 1), n)
                 /\ PosBefore(Event("postWait", s - 1), n)
                      < PosBefore(Event("preWait", s), n)

C10_Witness ==
    /\ Len(log) > 0
    /\ Last(log) = Event("taskStart", 2)

(* The terminal states of a flow, each by the mark that tells it apart. *)
Succeeded == pc = "done" /\ outcome = "resolved" /\ errSrc = "none"
BenignlyTerminated == pc = "done" /\ outcome = "resolved" /\ handlerOnSite = "off"
AwaitingDebugInspection == pc = "done" /\ outcome = "resolved" /\ injected # <<>>
Failed == pc = "done" /\ outcome = "rejected"

One(b) == IF b THEN 1 ELSE 0

(* C11: a bootstrapped flow that has ended is in exactly one of Succeeded, *)
(* BenignlyTerminated, Failed and AwaitingDebugInspection; onboard is      *)
(* settled exactly when the flow has ended, it settles once, and after it  *)
(* no further call (no step task) is made.                                 *)
C11_ExactlyOneOutcome ==
    /\ []((pc = "done" /\ Bootstrapped) =>
            One(Succeeded) + One(BenignlyTerminated) + One(Failed)
              + One(AwaitingDebugInspection) = 1)
    /\ [](pc = "done" <=> outcome # "pending")
    /\ [][outcome # "pending" =>
            (outcome' = outcome /\ thrown' = thrown /\ log' = log)]_vars

C11_Witness ==
    /\ Bootstrapped
    /\ BenignlyTerminated
    /\ debug
    /\ ~Succeeded /\ ~Failed /\ ~AwaitingDebugInspection

(* A task has raised or a validation rejection was detected. *)
Aborted == \E i \in 1..Len(log) : log[i].ev \in {"taskFail", "alertsFound"}

(* C12: once a task has raised or a validation rejection was detected, no  *)
(* task is invoked and no post-step wait is performed any more.            *)
C12_AbortWithoutRetry ==
    [][Aborted =>
         \A k \in (Len(log) + 1)..Len(log') :
             log'[k].ev \notin {"taskStart", "postWait", "preWait"}]_vars

C12_Witness ==
    /\ pc = "done"
    /\ Aborted
    /\ errSrc = "validation"
    /\ step = 2
    /\ handlerOnSite = "on"

(* The positions of the events named ev, in the order of the log. *)
IsTaskStart(x) == x.ev = "taskStart"
IsTaskEnd(x) == x.ev = "taskEnd"
StepsOf(events) == [i \in 1..Len(events) |-> events[i].step]

(* C13: in a run that ended through the success path, the tasks of the     *)
(* combined sequence (three prologue tasks, the flow-specific tasks, the   *)
(* summary task last) were each invoked once, with one label each, in list *)
(* order, and each completed; the final submission belongs to the last.    *)
C13_CompleteOrderedExecution ==
    Succeeded =>
        /\ NumTasks = 3 + numFlowTasks + 1
        /\ StepsOf(SelectSeq(log, IsTaskStart)) = [i \in 1..NumTasks |-> i]
        /\ StepsOf(SelectSeq(log, IsTaskEnd)) = [i \in 1..NumTasks |-> i]
        /\ ~Aborted
        /\ submitClicks = 1
        /\ PosBefore(Event("taskStart", NumTasks), Len(log))
             < PosBefore(Event("submit", NumTasks), Len(log))
        /\ Last(log) = Event("close", NumTasks)

C13_Witness ==
    /\ Succeeded
    /\ numFlowTasks = 1
    /\ confirmClicks = 1
    /\ browser = "closed"

(* C14: when the values are absent, the browser is never launched, no call *)
(* is made on any session, and fillOutFlow fails with the configuration    *)
(* error.                                                                  *)
C14_CallerConfigurationError ==
    ~valuesSet =>
        /\ browser = "none"
        /\ closeCount = 0
        /\ log = <<>>
        /\ pc \in {"start", "done"}
        /\ pc = "done" => (outcome = "rejected" /\ thrown = "Values must be set.")

C14_Witness ==
    /\ ~valuesSet
    /\ pc = "done"
    /\ outcome = "rejected"
    /\ thrown = ValuesMessage
    /\ browser = "none"

(* The index of the first event named ev in the log, or 0. *)
FirstPos(ev) ==
    LET hits == {i \in 1..Len(log) : log[i].ev = ev}
    IN  IF hits = {} THEN 0 ELSE CHOOSE i \in hits : \A k \in hits : i <= k

(* C15: when the summary step finds role=status elements, it raises at     *)
(* once the error of the missing fields, and the final submission button   *)
(* (and the dialog's button) is never clicked in that flow.                *)
C15_StructuralInconsistency ==
    FirstPos("statusFound") > 0 =>
        /\ log[FirstPos("statusFound")].step = NumTasks
        /\ FirstPos("statusFound") < Len(log)
        /\ FirstPos("taskFail") = FirstPos("statusFound") + 1
        /\ errSrc = "task"
        /\ e = "Fields were missing in summary despite no errors during flow."
        /\ submitClicks = 0
        /\ confirmClicks = 0
        /\ FirstPos("submit") = 0

C15_Witness ==
    /\ FirstPos("statusFound") > 0
    /\ pc = "done"
    /\ outcome = "rejected"
    /\ thrown = MissingFieldsMessage
    /\ submitClicks = 0

(* The summary step has looked for the dialog and is past its click. *)
DialogSettled ==
    /\ FirstPos("dialogNone") + FirstPos("dialogFound") > 0
    /\ pc # "summaryConfirm"

SummaryCompleted == PosBefore(Event("taskEnd", NumTasks), Len(log) + 1) > 0

(* C16 as stated: the submission was triggered once; with a dialog the     *)
(* confirm button was clicked once, without one it was not clicked; and in *)
(* both cases the step completed without error.                            *)
C16_AlwaysCompletes ==
    DialogSettled =>
        /\ submitClicks = 1
        /\ confirmClicks = One(FirstPos("dialogFound") > 0)
        /\ SummaryCompleted

(* C16 (amended): the submission is triggered at most once in a flow and   *)
(* exactly once before the dialog is looked for; without a dialog no       *)
(* confirm button is clicked and the step completes without error; with a  *)
(* dialog the confirm click is made exactly once, and the step completes   *)
(* unless that click raises, in which case the step fails with its error.  *)
C16_EpilogueConfirmation ==
    /\ submitClicks <= 1
    /\ confirmClicks <= submitClicks
    /\ DialogSettled =>
         /\ submitClicks = 1
         /\ FirstPos("dialogNone") > 0 =>
              /\ confirmClicks = 0
              /\ FirstPos("confirm") + FirstPos("confirmFail") = 0
              /\ SummaryCompleted
              /\ FirstPos("taskFail") = 0
         /\ FirstPos("dialogFound") > 0 =>
              \/ /\ FirstPos("confirm") = FirstPos("dialogFound") + 1
                 /\ FirstPos("confirmFail") = 0
                 /\ confirmClicks = 1
                 /\ SummaryCompleted
              \/ /\ FirstPos("confirmFail") = FirstPos("dialogFound") + 1
                 /\ FirstPos("confirm") = 0
                 /\ confirmClicks = 0
                 /\ ~SummaryCompleted
                 /\ errSrc = "task"
                 /\ e \in EnvErrors

C16_Witness ==
    /\ DialogSettled
    /\ FirstPos("dialogFound") > 0
    /\ submitClicks = 1
    /\ confirmClicks = 1
    /\ SummaryCompleted

(* The test cases between acquire and release. *)
Holders == {t \in Tests : testPc[t] = "holding"}

PageCallEvents ==
    {"preWait", "preCheckOn", "preCheckOff", "heading", "taskStart", "taskEnd",
     "taskFail", "statusNone", "statusFound", "submit", "dialogNone", "dialogFound",
     "confirm", "confirmFail", "alertsNone", "alertsFound", "postWait",
     "handlerCheck", "handlerCheckFail", "inject", "injectFail"}

(* C19: no page primitive and no step task is invoked once browser.close   *)
(* has been invoked (every call is the last event of the state it made).   *)
C19_NoUseAfterRelease ==
    (Len(log) > 0 /\ Last(log).ev \in PageCallEvents) => closeCount = 0

(* C20: when every primitive and task settles, the flow eventually ends    *)
(* and onboard settles; the position of the loop never goes back.          *)
C20_Termination ==
    /\ <>(pc = "done" /\ outcome # "pending")
    /\ [][step' >= step /\ step' <= step + 1]_vars
    /\ [](step <= NumTasks)

C20_Witness ==
    /\ pc = "done"
    /\ outcome = "resolved"
    /\ step = NumTasks
    /\ numFlowTasks = MaxFlowTasks
    /\ injected # <<>>

====
